---- MODULE Spec2Model ----
(***************************************************************************)
(* NeoGuide: the audio alert scheduler (src/services/voiceAlerts.js), the  *)
(* periodic analysis driver (src/components/Dashboard.jsx) and the vision  *)
(* response recovery (src/services/geminiVision.js) as state machines.     *)
(*                                                                         *)
(* JavaScript runs handlers to completion; an async function runs until    *)
(* its first pending await and is resumed by the settlement of the promise *)
(* it awaits.  Each action below is one such run-to-completion step.       *)
(***************************************************************************)
EXTENDS Integers, Sequences, FiniteSets, TLC

\* voiceAlerts.js
VARIABLES audioQueue, isPlaying, currentAudio, audioCache, procs, quiet, calls,
          ignored
\* ignored (history): a call with a key outside the catalog returned at its
\* first test while a clip played and an item waited

\* Dashboard.jsx
VARIABLES isActive, voiceEnabled, analysisInterval, isAnalyzingRef, historyRef,
          stableRef, sinceLastAlert, seenLandmarksRef, inflight, lastRun, frames

\* geminiVision.js
VARIABLES response, returned

\* one determineAlert call; the record of what a draining queue did
VARIABLES decision, drainLog

audioVars == <<audioQueue, isPlaying, currentAudio, audioCache, procs, quiet, calls,
              ignored>>

driverVars == <<isActive, voiceEnabled, analysisInterval, isAnalyzingRef, historyRef,
                stableRef, sinceLastAlert, seenLandmarksRef, inflight, lastRun, frames>>

visionVars == <<response, returned>>

logVars == <<decision, drainLog>>

vars == <<audioVars, driverVars, visionVars, logVars>>

(***************************************************************************)
(* Bounds of the model.                                                    *)
(***************************************************************************)
\* async invocations of processQueue / speakUrgent that can be suspended at once
MaxProcs == 3
\* pending items the queue may hold
MaxQueue == 2
\* calls of the exported scheduler functions in one run
MaxCalls == 4
\* frames the driver captures in one run
MaxFrames == 2
\* runAnalysis invocations that can be suspended at once
MaxInflight == 2
\* items enqueued in one run checked for its eventual outcome
MaxEnqueues == 3

(***************************************************************************)
(* voiceAlerts.js: the alert catalog.                                      *)
(***************************************************************************)
ALERT_DEFINITIONS ==
  [ epiglottis_detected    |-> [text |-> "Epiglottis detected. Advancing toward vocal cords.", priority |-> 1],
    vocal_cords_detected   |-> [text |-> "Vocal cords detected. Align for insertion.", priority |-> 2],
    entering_trachea       |-> [text |-> "Entering trachea. Advance to optimal depth.", priority |-> 2],
    tracheal_rings_visible |-> [text |-> "Tracheal rings visible. Tube in trachea.", priority |-> 1],
    optimal_depth          |-> [text |-> "Optimal depth reached. Safe to secure tube.", priority |-> 3],
    warning_deep           |-> [text |-> "Warning. Approaching carina. Do not advance further.", priority |-> 4],
    danger_bronchial       |-> [text |-> "Danger. Bronchial intubation detected. Withdraw immediately.", priority |-> 5],
    esophageal_warning     |-> [text |-> "Warning. Possible esophageal intubation. Verify placement.", priority |-> 5],
    poor_image             |-> [text |-> "Poor image quality. Reposition camera.", priority |-> 1],
    system_ready           |-> [text |-> "NeoGuide active. Camera feed detected.", priority |-> 1],
    placement_confirmed    |-> [text |-> "Tube placement confirmed. Monitoring active.", priority |-> 3] ]

AlertKeys == DOMAIN ALERT_DEFINITIONS

\* keys the environment passes to speakAlert / speakUrgent ("not_an_alert" is
\* absent from the catalog), and the arguments it passes to speakCustom
SpeakAlertKeys == {"epiglottis_detected", "vocal_cords_detected", "danger_bronchial", "not_an_alert"}
SpeakUrgentKeys == {"esophageal_warning", "not_an_alert"}
CustomTexts == {"Hold position."}
CustomPriorities == {2}

(***************************************************************************)
(* The suspended async invocations.  Slot i of procs is either free or     *)
(* holds one invocation of processQueue (kind "queue") or of speakUrgent   *)
(* (kind "urgent"), suspended at `await generateSpeech` (pc "synth") or at *)
(* `await playAudio` (pc "play"); the Audio object it created is named by  *)
(* its slot.  An invocation whose audio was paused is awaiting a promise   *)
(* that never settles (pause fires neither onended nor onerror), so its    *)
(* slot is freed.  The fields superseded, scenario and enqueued are        *)
(* history: a speakUrgent call happened after this invocation began; the   *)
(* invocation is a speakUrgent call made while a queued item was playing   *)
(* and two items were pending; an item was enqueued after it began.        *)
(***************************************************************************)
Slots == 1 .. MaxProcs

NoProc == [kind |-> "none", text |-> "", pc |-> "free",
           superseded |-> FALSE, scenario |-> FALSE, enqueued |-> FALSE]

\* currentAudio: 0 is null, a slot is that invocation's Audio object, and
\* DeadAudio is an Audio object whose play() was rejected
DeadAudio == -1

FreeSlots(ps) == {i \in Slots : ps[i].pc = "free"}

FreeSlot(ps) == CHOOSE i \in FreeSlots(ps) : \A j \in FreeSlots(ps) : i <= j

Playing(ps) == {i \in Slots : ps[i].pc = "play"}

Sched == [audioQueue |-> audioQueue, isPlaying |-> isPlaying,
          currentAudio |-> currentAudio, audioCache |-> audioCache, procs |-> procs]

Commit(s) ==
  /\ audioQueue' = s.audioQueue
  /\ isPlaying' = s.isPlaying
  /\ currentAudio' = s.currentAudio
  /\ audioCache' = s.audioCache
  /\ procs' = s.procs

(***************************************************************************)
(* voiceAlerts.js: the functions, as transformers of the scheduler state.  *)
(***************************************************************************)
\* if (currentAudio) { currentAudio.pause(); currentAudio = null; }
PauseCurrent(s) ==
  IF s.currentAudio = 0 THEN s
  ELSE [s EXCEPT !.currentAudio = 0,
                 !.procs = [i \in Slots |->
                              IF i = s.currentAudio /\ s.procs[i].pc = "play"
                              THEN NoProc ELSE s.procs[i]]]

\* playAudio without its leading stop of the current audio
PlayAudioOverlapping(s, slot) ==
  [s EXCEPT !.currentAudio = slot, !.procs[slot].pc = "play"]

\* playAudio(audioData), called by the invocation in slot
PlayAudio(s, slot) ==
  LET t == PauseCurrent(s)
  IN [t EXCEPT !.currentAudio = slot, !.procs[slot].pc = "play"]

\* the sort with its comparator reversed, (a, b) => a.priority - b.priority
RECURSIVE InsertByPriorityAscending(_, _)
InsertByPriorityAscending(item, sorted) ==
  IF sorted = <<>> THEN <<item>>
  ELSE IF Head(sorted).priority <= item.priority
       THEN <<Head(sorted)>> \o InsertByPriorityAscending(item, Tail(sorted))
       ELSE <<item>> \o sorted

\* a sort that puts the later of two items of one priority first
RECURSIVE InsertByPriorityUnstable(_, _)
InsertByPriorityUnstable(item, sorted) ==
  IF sorted = <<>> THEN <<item>>
  ELSE IF Head(sorted).priority > item.priority
       THEN <<Head(sorted)>> \o InsertByPriorityUnstable(item, Tail(sorted))
       ELSE <<item>> \o sorted

\* Array.prototype.sort with (a, b) => b.priority - a.priority: stable,
\* descending by priority
RECURSIVE InsertByPriority(_, _)
InsertByPriority(item, sorted) ==
  IF sorted = <<>> THEN <<item>>
  ELSE IF Head(sorted).priority >= item.priority
       THEN <<Head(sorted)>> \o InsertByPriority(item, Tail(sorted))
       ELSE <<item>> \o sorted

RECURSIVE SortByPriority(_)
SortByPriority(q) ==
  IF q = <<>> THEN <<>>
  ELSE InsertByPriority(q[Len(q)], SortByPriority(SubSeq(q, 1, Len(q) - 1)))

\* processQueue(), up to its first pending await
ProcessQueue(s) ==
  IF s.isPlaying \/ s.audioQueue = <<>> THEN s
  ELSE LET sorted == SortByPriority(s.audioQueue)
           item == Head(sorted)
           slot == FreeSlot(s.procs)
           t == [s EXCEPT !.isPlaying = TRUE,
                          !.audioQueue = Tail(sorted),
                          !.procs[slot] = [NoProc EXCEPT !.kind = "queue",
                                                         !.text = item.text,
                                                         !.pc = "synth"]]
       IN IF item.text \in t.audioCache THEN PlayAudio(t, slot) ELSE t

\* history: an item was enqueued while these invocations were in flight
MarkEnqueued(s) ==
  [s EXCEPT !.procs = [i \in Slots |->
                         IF s.procs[i].pc = "free" THEN NoProc
                         ELSE [s.procs[i] EXCEPT !.enqueued = TRUE]]]

\* audioQueue.push({ text, priority }); processQueue();
Enqueue(s, text, priority) ==
  LET t == MarkEnqueued(s)
  IN ProcessQueue([t EXCEPT !.audioQueue =
                      Append(t.audioQueue, [text |-> text, priority |-> priority])])

\* speakAlert speaking the key itself when the catalog lacks it
SpeakAlertSpeaksUnknownKey(s, alertKey) ==
  IF alertKey \notin AlertKeys THEN Enqueue(s, alertKey, 1)
  ELSE Enqueue(s, ALERT_DEFINITIONS[alertKey].text, ALERT_DEFINITIONS[alertKey].priority)

\* speakAlert(alertKey)
SpeakAlertFn(s, alertKey) ==
  IF alertKey \notin AlertKeys THEN s
  ELSE Enqueue(s, ALERT_DEFINITIONS[alertKey].text, ALERT_DEFINITIONS[alertKey].priority)

\* speakCustom(text, priority)
SpeakCustomFn(s, text, priority) == Enqueue(s, text, priority)

\* history: a speakUrgent call is made while these invocations are in flight
MarkSuperseded(s) ==
  [s EXCEPT !.procs = [i \in Slots |->
                         IF s.procs[i].pc = "free" THEN NoProc
                         ELSE [s.procs[i] EXCEPT !.superseded = TRUE]]]

\* the state in which the spec's urgent scenario starts: a queued item is
\* playing and two items are pending
UrgentScenario(s) ==
  /\ Len(s.audioQueue) = 2
  /\ \E i \in Slots : s.procs[i].pc = "play" /\ s.procs[i].kind = "queue"

\* speakUrgent without the clearing of the pending queue
SpeakUrgentKeepsQueue(s, alertKey) ==
  IF alertKey \notin AlertKeys THEN s
  ELSE LET alert == ALERT_DEFINITIONS[alertKey]
           t == PauseCurrent(MarkSuperseded([s EXCEPT !.isPlaying = TRUE]))
           slot == FreeSlot(t.procs)
           u == [t EXCEPT !.procs[slot] = [NoProc EXCEPT !.kind = "urgent",
                                                         !.text = alert.text,
                                                         !.pc = "synth",
                                                         !.scenario = UrgentScenario(s)]]
       IN IF alert.text \in u.audioCache THEN PlayAudio(u, slot) ELSE u

\* speakUrgent(alertKey), up to its first pending await
SpeakUrgentFn(s, alertKey) ==
  IF alertKey \notin AlertKeys THEN s
  ELSE LET alert == ALERT_DEFINITIONS[alertKey]
           t == PauseCurrent(MarkSuperseded(
                  [s EXCEPT !.audioQueue = <<>>, !.isPlaying = TRUE]))
           slot == FreeSlot(t.procs)
           u == [t EXCEPT !.procs[slot] = [NoProc EXCEPT !.kind = "urgent",
                                                         !.text = alert.text,
                                                         !.pc = "synth",
                                                         !.scenario = UrgentScenario(s)]]
       IN IF alert.text \in u.audioCache THEN PlayAudio(u, slot) ELSE u

\* stopAllAudio without the stop of the current audio
StopAllAudioNoPause(s) ==
  [s EXCEPT !.audioQueue = <<>>, !.isPlaying = FALSE]

\* stopAllAudio()
StopAllAudioFn(s) ==
  [PauseCurrent([s EXCEPT !.audioQueue = <<>>]) EXCEPT !.isPlaying = FALSE]

\* processQueue returning from its catch block without draining further
AfterSynthesisStalls(s, slot, ok) ==
  IF ok
  THEN PlayAudio([s EXCEPT !.audioCache = @ \cup {s.procs[slot].text}], slot)
  ELSE [s EXCEPT !.procs[slot] = NoProc, !.isPlaying = FALSE]

\* the code after `await generateSpeech(...)` in the invocation in slot
AfterSynthesis(s, slot, ok) ==
  LET p == s.procs[slot]
  IN IF ok
     THEN PlayAudio([s EXCEPT !.audioCache = @ \cup {p.text}], slot)
     ELSE IF p.kind = "queue"
          THEN ProcessQueue([s EXCEPT !.procs[slot] = NoProc, !.isPlaying = FALSE])
          ELSE [s EXCEPT !.procs[slot] = NoProc, !.isPlaying = FALSE]

\* the code after `await playAudio(...)` leaving isPlaying set
AfterPlaybackKeepsBusy(s, slot, outcome) ==
  LET cur == IF s.currentAudio # slot THEN s.currentAudio
             ELSE IF outcome = "playRejected" THEN DeadAudio ELSE 0
  IN ProcessQueue([s EXCEPT !.currentAudio = cur, !.procs[slot] = NoProc])

\* audio.onended / audio.onerror / rejection of audio.play(), and the code
\* after `await playAudio(...)` in the invocation in slot
AfterPlayback(s, slot, outcome) ==
  LET cur == IF s.currentAudio # slot THEN s.currentAudio
             ELSE IF outcome = "playRejected" THEN DeadAudio ELSE 0
  IN ProcessQueue([s EXCEPT !.currentAudio = cur,
                            !.procs[slot] = NoProc,
                            !.isPlaying = FALSE])

PlaybackOutcomes == {"ended", "error", "playRejected"}

(***************************************************************************)
(* The scheduler's actions.                                                *)
(***************************************************************************)
\* a handler that may start an async invocation needs a free slot
CanCall == calls < MaxCalls /\ FreeSlots(procs) # {}

SpeakAlert(alertKey) ==
  /\ CanCall
  /\ Len(audioQueue) < MaxQueue \/ ~isPlaying \/ alertKey \notin AlertKeys
  /\ Commit(SpeakAlertFn(Sched, alertKey))
  /\ quiet' = (quiet /\ alertKey \notin AlertKeys)
  /\ calls' = calls + 1
  /\ ignored' = (ignored \/ (alertKey \notin AlertKeys /\ isPlaying /\ audioQueue # <<>>))
  /\ UNCHANGED <<driverVars, visionVars, logVars>>

SpeakCustom(text, priority) ==
  /\ CanCall
  /\ Len(audioQueue) < MaxQueue \/ ~isPlaying
  /\ Commit(SpeakCustomFn(Sched, text, priority))
  /\ quiet' = FALSE
  /\ calls' = calls + 1
  /\ UNCHANGED ignored
  /\ UNCHANGED <<driverVars, visionVars, logVars>>

SpeakUrgent(alertKey) ==
  /\ CanCall
  /\ Commit(SpeakUrgentFn(Sched, alertKey))
  /\ quiet' = (quiet /\ alertKey \notin AlertKeys)
  /\ calls' = calls + 1
  /\ ignored' = (ignored \/ (alertKey \notin AlertKeys /\ isPlaying /\ audioQueue # <<>>))
  /\ UNCHANGED <<driverVars, visionVars, logVars>>

StopAllAudio ==
  /\ calls < MaxCalls
  /\ Commit(StopAllAudioFn(Sched))
  /\ quiet' = TRUE
  /\ calls' = calls + 1
  /\ UNCHANGED ignored
  /\ UNCHANGED <<driverVars, visionVars, logVars>>

SynthesisReturns(slot, ok) ==
  /\ procs[slot].pc = "synth"
  /\ Commit(AfterSynthesis(Sched, slot, ok))
  /\ UNCHANGED <<quiet, calls, ignored, driverVars, visionVars, logVars>>

PlaybackSettles(slot, outcome) ==
  /\ procs[slot].pc = "play"
  /\ Commit(AfterPlayback(Sched, slot, outcome))
  /\ UNCHANGED <<quiet, calls, ignored, driverVars, visionVars, logVars>>

InitAudio ==
  /\ audioQueue = <<>>
  /\ isPlaying = FALSE
  /\ currentAudio = 0
  /\ audioCache = {}
  /\ procs = [i \in Slots |-> NoProc]
  /\ quiet = FALSE
  /\ calls = 0
  /\ ignored = FALSE

NextAudio ==
  \/ \E k \in SpeakAlertKeys : SpeakAlert(k)
  \/ \E t \in CustomTexts, p \in CustomPriorities : SpeakCustom(t, p)
  \/ \E k \in SpeakUrgentKeys : SpeakUrgent(k)
  \/ StopAllAudio
  \/ \E i \in Slots, ok \in BOOLEAN : SynthesisReturns(i, ok)
  \/ \E i \in Slots, o \in PlaybackOutcomes : PlaybackSettles(i, o)

(***************************************************************************)
(* geminiVision.js: analyzeFrame.                                          *)
(*                                                                         *)
(* A JavaScript object is a record whose absent keys are marked: a string  *)
(* field that is absent is Undef, a number that is absent is NoNumber,     *)
(* hasLandmarks says whether the landmarks key is there and present        *)
(* whether one landmark's key is.  Confidence is in hundredths and depth   *)
(* in millimetres.  identified_as, error and timestamp are left out.       *)
(***************************************************************************)
Undef == "undefined"

NoNumber == -1

LandmarkIds == {"epiglottis", "vocal_cords", "tracheal_rings", "carina", "esophagus", "glottis"}

Absent == [present |-> FALSE, visible |-> FALSE, confidence |-> NoNumber]

Obs(v, c) == [present |-> TRUE, visible |-> v, confidence |-> c]

\* const blank = { visible: false, confidence: 0 }
Blank == Obs(FALSE, 0)

ZONE_DEPTH_CM ==
  [pre_glottic |-> 0, glottic |-> 2, subglottic |-> 8, tracheal |-> 20,
   carinal |-> 35, bronchial |-> 45, unknown |-> 0]

\* landmarks[key].confidence < 0.3
ConfidenceGate == 30

\* the value of a JSON text: kind "object" with the keys it has, kind "null"
\* for a falsy value (null, false, 0, ""), kind "scalar" for a truthy value
\* that is not an object (a number, a string, true)
NullData ==
  [kind |-> "null", hasLandmarks |-> FALSE,
   landmarks |-> [l \in LandmarkIds |-> Absent],
   depth_zone |-> Undef, safety_status |-> Undef, guidance_message |-> Undef,
   estimated_depth_cm |-> NoNumber, image_quality |-> Undef]

ScalarData == [NullData EXCEPT !.kind = "scalar"]

\* The response text, by how its JSON is written: "json" is a JSON document
\* and nothing else, "fenced" is one inside ``` markers, "prose" is an object
\* with text before or after it, "trailing_comma" and "single_quoted" are
\* objects with that defect, "truncated" is an object cut short; value is
\* what is written.
\* text.replace(/```json\n?/g, '').replace(/```\n?/g, '').trim()
Clean(text) == IF text.form = "fenced" THEN [text EXCEPT !.form = "json"] ELSE text

\* try { data = JSON.parse(...) } catch (_) { }: data stays null on a throw
JsonParse(cleaned, parseable) ==
  IF cleaned.form \in parseable THEN cleaned.value ELSE NullData

\* Approach 1: direct parse
Approach1(cleaned) == JsonParse(cleaned, {"json"})

\* Approach 2: the text from the first { to the last }
Approach2(cleaned) ==
  IF cleaned.value.kind = "object" THEN JsonParse(cleaned, {"json", "prose"})
  ELSE NullData

\* Approach 3: trailing commas removed and ' replaced by ", then as Approach 2
Approach3(cleaned) ==
  IF cleaned.value.kind = "object"
  THEN JsonParse(cleaned, {"json", "prose", "trailing_comma", "single_quoted"})
  ELSE NullData

\* Approach 4 extracting each landmark's confidence as well
Approach4KeepsConfidence(cleaned) ==
  LET v == cleaned.value
      extract(field, fallback) == IF field # Undef THEN field ELSE fallback
  IN [kind |-> "object",
      depth_zone |-> extract(v.depth_zone, "unknown"),
      safety_status |-> extract(v.safety_status, "safe"),
      guidance_message |-> extract(v.guidance_message, "Unable to parse response"),
      estimated_depth_cm |-> IF v.estimated_depth_cm # NoNumber THEN v.estimated_depth_cm ELSE 0,
      image_quality |-> extract(v.image_quality, "poor"),
      hasLandmarks |-> TRUE,
      landmarks |-> [l \in LandmarkIds |->
                       IF v.landmarks[l].present /\ v.landmarks[l].confidence # NoNumber
                       THEN v.landmarks[l]
                       ELSE Obs(v.landmarks[l].present /\ v.landmarks[l].visible, 0)]]

\* Approach 4: each field by its own pattern, with its fallback
Approach4(cleaned) ==
  LET v == cleaned.value
      extract(field, fallback) == IF field # Undef THEN field ELSE fallback
  IN [kind |-> "object",
      depth_zone |-> extract(v.depth_zone, "unknown"),
      safety_status |-> extract(v.safety_status, "safe"),
      guidance_message |-> extract(v.guidance_message, "Unable to parse response"),
      estimated_depth_cm |-> IF v.estimated_depth_cm # NoNumber THEN v.estimated_depth_cm ELSE 0,
      image_quality |-> extract(v.image_quality, "poor"),
      hasLandmarks |-> TRUE,
      landmarks |-> [l \in LandmarkIds |->
                       Obs(v.landmarks[l].present /\ v.landmarks[l].visible, 0)]]

\* the four approaches, each tried only if (!data)
Recover(cleaned) ==
  LET d1 == Approach1(cleaned)
      d2 == IF d1.kind = "null" THEN Approach2(cleaned) ELSE d1
      d3 == IF d2.kind = "null" THEN Approach3(cleaned) ELSE d2
  IN IF d3.kind = "null" THEN Approach4(cleaned) ELSE d3

\* the safety net blanking the landmarks only, the zone, status and depth kept
BlankNoAirwayLandmarksOnly(data) ==
  IF data.image_quality = "no_airway_visible"
  THEN [data EXCEPT
          !.hasLandmarks = TRUE,
          !.landmarks = [l \in LandmarkIds |->
                           IF l = "esophagus" /\ data.hasLandmarks /\ data.landmarks[l].present
                           THEN data.landmarks[l] ELSE Blank]]
  ELSE data

\* Safety net: if (data.image_quality === 'no_airway_visible') { ... }
BlankNoAirway(data) ==
  IF data.image_quality = "no_airway_visible"
  THEN [data EXCEPT
          !.hasLandmarks = TRUE,
          !.landmarks = [l \in LandmarkIds |->
                           IF l = "esophagus" /\ data.hasLandmarks /\ data.landmarks[l].present
                           THEN data.landmarks[l] ELSE Blank],
          !.depth_zone = "unknown",
          !.safety_status = "safe",
          !.estimated_depth_cm = 0]
  ELSE data

\* undefined < 0.3 is false
BelowGate(confidence) == confidence # NoNumber /\ confidence < ConfidenceGate

\* analyzeFrame without its confidence gate
GateConfidenceOff(data) == data

\* if (data.landmarks) for each key: confidence < 0.3 => visible = false
GateConfidence(data) ==
  IF data.hasLandmarks
  THEN [data EXCEPT !.landmarks =
          [l \in LandmarkIds |->
             IF data.landmarks[l].present /\ BelowGate(data.landmarks[l].confidence)
             THEN [data.landmarks[l] EXCEPT !.visible = FALSE]
             ELSE data.landmarks[l]]]
  ELSE data

\* the depth override yielding to a number the response gave
OverrideDepthKeepsGiven(data) ==
  [data EXCEPT !.estimated_depth_cm =
     IF @ # NoNumber THEN @
     ELSE IF data.depth_zone \in DOMAIN ZONE_DEPTH_CM THEN ZONE_DEPTH_CM[data.depth_zone] ELSE 0]

\* data.estimated_depth_cm = ZONE_DEPTH_CM[data.depth_zone] ?? 0
OverrideDepth(data) ==
  [data EXCEPT !.estimated_depth_cm =
     IF data.depth_zone \in DOMAIN ZONE_DEPTH_CM THEN ZONE_DEPTH_CM[data.depth_zone] ELSE 0]

\* data.landmarks?.esophagus?.visible
EsophagusVisible(r) ==
  r.hasLandmarks /\ r.landmarks["esophagus"].present /\ r.landmarks["esophagus"].visible

\* the escalation skipped for a frame classified as showing no airway
EscalateUnlessNoAirway(data) ==
  IF EsophagusVisible(data) /\ data.image_quality # "no_airway_visible"
  THEN [data EXCEPT
          !.safety_status = "danger",
          !.guidance_message = "ESOPHAGEAL INTUBATION DETECTED",
          !.depth_zone = "unknown"]
  ELSE data

\* Esophagus danger escalation
EscalateEsophagus(data) ==
  IF EsophagusVisible(data)
  THEN [data EXCEPT
          !.safety_status = "danger",
          !.guidance_message = "ESOPHAGEAL INTUBATION DETECTED",
          !.depth_zone = "unknown"]
  ELSE data

Normalize(data) == EscalateEsophagus(OverrideDepth(GateConfidence(BlankNoAirway(data))))

\* the record of the catch block
FailureRecord ==
  [success |-> FALSE, hasLandmarks |-> TRUE,
   landmarks |-> [l \in LandmarkIds |-> Blank],
   depth_zone |-> "unknown", safety_status |-> "safe",
   guidance_message |-> "Awaiting camera feed...",
   estimated_depth_cm |-> 0, image_quality |-> "poor"]

\* return { success: true, ...data }
SuccessRecord(data) ==
  [success |-> TRUE, hasLandmarks |-> data.hasLandmarks, landmarks |-> data.landmarks,
   depth_zone |-> data.depth_zone, safety_status |-> data.safety_status,
   guidance_message |-> data.guidance_message,
   estimated_depth_cm |-> data.estimated_depth_cm, image_quality |-> data.image_quality]

\* analyzeFrame, given how generateContent settled.  When data is a truthy
\* scalar, the assignment data.estimated_depth_cm = ... throws (module code
\* is strict) and the catch block returns the failure record.
AnalyzeFrame(resp) ==
  IF ~resp.ok THEN FailureRecord
  ELSE LET data == Recover(Clean(resp.text))
       IN IF data.kind = "scalar" THEN FailureRecord
          ELSE SuccessRecord(Normalize(data))

(***************************************************************************)
(* geminiVision.js: one analyzeFrame call as a state machine.  response is *)
(* how model.generateContent settles; returned is <<>> while the call is   *)
(* pending and <<record>> once analyzeFrame has returned.                  *)
(***************************************************************************)
Landmarks(others, vocal, esoph) ==
  [l \in LandmarkIds |-> IF l = "esophagus" THEN esoph
                         ELSE IF l = "vocal_cords" THEN vocal ELSE others]

\* the objects a response text may hold
ObjectInputs ==
  { [kind |-> "object", hasLandmarks |-> TRUE, landmarks |-> lm,
     depth_zone |-> z, safety_status |-> st, guidance_message |-> g,
     estimated_depth_cm |-> d, image_quality |-> q] :
      lm \in { Landmarks(o, v, e) :
                 o \in {Absent, Obs(FALSE, 5)},
                 v \in {Absent, Obs(TRUE, 92)},
                 e \in {Absent, Obs(FALSE, 0), Obs(TRUE, 90), Obs(TRUE, 29), Obs(TRUE, NoNumber)} },
      z \in {Undef, "glottic", "carinal", "bronchial", "deep"},
      st \in {Undef, "safe", "danger"},
      g \in {Undef, "Advance."},
      d \in {NoNumber, 12},
      q \in {Undef, "good", "no_airway_visible"} }
  \cup
  { [NullData EXCEPT !.kind = "object", !.depth_zone = z, !.image_quality = q] :
      z \in {Undef, "carinal"}, q \in {Undef, "no_airway_visible"} }

ObjectForms == {"json", "fenced", "prose", "trailing_comma", "single_quoted", "truncated"}

TextInputs ==
  { [form |-> f, value |-> v] : f \in ObjectForms, v \in ObjectInputs }
  \cup { [form |-> f, value |-> v] : f \in {"json", "fenced"}, v \in {NullData, ScalarData} }

ResponseInputs ==
  { [ok |-> TRUE, text |-> t] : t \in TextInputs }
  \cup { [ok |-> FALSE, text |-> [form |-> "json", value |-> NullData]] }

\* generateContent resolves with a text
VisionResolves ==
  /\ returned = <<>>
  /\ response.ok
  /\ returned' = <<AnalyzeFrame(response)>>
  /\ UNCHANGED <<response, audioVars, driverVars, logVars>>

\* generateContent rejects
VisionRejects ==
  /\ returned = <<>>
  /\ ~response.ok
  /\ returned' = <<AnalyzeFrame(response)>>
  /\ UNCHANGED <<response, audioVars, driverVars, logVars>>

(***************************************************************************)
(* voiceAlerts.js: determineAlert.  "null" is no alert; Throws is the      *)
(* TypeError of reading a landmark of a record without a landmarks key.    *)
(* prev is <<>> for null and <<view>> otherwise.                           *)
(***************************************************************************)
Throws == "TypeError"

Visible(r, l) == r.hasLandmarks /\ r.landmarks[l].present /\ r.landmarks[l].visible

\* the first confirmation firing on every frame that shows the vocal cords
VocalCordsSeen(curr, prev) == Visible(curr, "vocal_cords")

\* curr.landmarks.vocal_cords?.visible && !prev.landmarks?.vocal_cords?.visible,
\* inside if (prev)
VocalCordsAppeared(curr, prev) ==
  /\ prev # <<>>
  /\ Visible(curr, "vocal_cords")
  /\ ~Visible(prev[1], "vocal_cords")

\* determineAlert with its bronchial rule asking for a previous view
DetermineAlertBronchialNeedsPrev(curr, prev) ==
  IF /\ curr.success
     /\ curr.safety_status = "danger"
     /\ curr.depth_zone = "bronchial"
     /\ prev # <<>>
     /\ prev[1].depth_zone # "bronchial"
  THEN "danger_bronchial" ELSE "null"

DetermineAlert(curr, prev) ==
  LET hasPrev == prev # <<>>
      prevVisible(l) == hasPrev /\ Visible(prev[1], l)
      prevZone == IF hasPrev THEN prev[1].depth_zone ELSE Undef
      prevStatus == IF hasPrev THEN prev[1].safety_status ELSE Undef
      prevQuality == IF hasPrev THEN prev[1].image_quality ELSE Undef
      danger == curr.safety_status = "danger"
  IN IF ~curr.success THEN "null"
     ELSE IF danger /\ curr.depth_zone = "bronchial" /\ prevZone # "bronchial"
       THEN "danger_bronchial"
     ELSE IF danger /\ ~curr.hasLandmarks THEN Throws
     ELSE IF danger /\ Visible(curr, "esophagus") /\ ~prevVisible("esophagus")
       THEN "esophageal_warning"
     ELSE IF curr.safety_status = "warning" /\ prevStatus # "warning"
       THEN "warning_deep"
     ELSE IF hasPrev /\ ~curr.hasLandmarks THEN Throws
     ELSE IF VocalCordsAppeared(curr, prev)
       THEN "vocal_cords_detected"
     ELSE IF hasPrev /\ Visible(curr, "epiglottis") /\ ~prevVisible("epiglottis")
       THEN "epiglottis_detected"
     ELSE IF hasPrev /\ curr.depth_zone = "tracheal" /\ prevZone # "tracheal"
       THEN "optimal_depth"
     ELSE IF hasPrev /\ curr.depth_zone = "subglottic" /\ prevZone = "glottic"
       THEN "entering_trachea"
     ELSE IF curr.image_quality = "poor" /\ prevQuality # "poor"
       THEN "poor_image"
     ELSE "null"

(***************************************************************************)
(* Dashboard.jsx: the analysis loop.                                       *)
(***************************************************************************)
ALERT_COOLDOWN_MS == 1500

\* getMajority(arr, key), given the values of key in arr (Undef stands for
\* null and undefined).  counts is the object the loop fills, as the
\* sequence of its entries: Object.entries lists string keys in the order of
\* their insertion.
Tally(counts, v) ==
  IF v = Undef THEN counts
  ELSE IF \E i \in 1 .. Len(counts) : counts[i].value = v
       THEN [i \in 1 .. Len(counts) |->
               IF counts[i].value = v THEN [counts[i] EXCEPT !.count = @ + 1]
               ELSE counts[i]]
       ELSE Append(counts, [value |-> v, count |-> 1])

RECURSIVE CountValues(_)
CountValues(values) ==
  IF values = <<>> THEN <<>>
  ELSE Tally(CountValues(SubSeq(values, 1, Len(values) - 1)), values[Len(values)])

\* the sort of getMajority with the comparator reversed: ascending by count
RECURSIVE InsertByCountAscending(_, _)
InsertByCountAscending(entry, sorted) ==
  IF sorted = <<>> THEN <<entry>>
  ELSE IF Head(sorted).count <= entry.count
       THEN <<Head(sorted)>> \o InsertByCountAscending(entry, Tail(sorted))
       ELSE <<entry>> \o sorted

\* Array.prototype.sort with (a, b) => b[1] - a[1]: stable, descending by count
RECURSIVE InsertByCount(_, _)
InsertByCount(entry, sorted) ==
  IF sorted = <<>> THEN <<entry>>
  ELSE IF Head(sorted).count >= entry.count
       THEN <<Head(sorted)>> \o InsertByCount(entry, Tail(sorted))
       ELSE <<entry>> \o sorted

RECURSIVE SortByCount(_)
SortByCount(entries) ==
  IF entries = <<>> THEN <<>>
  ELSE InsertByCount(entries[Len(entries)],
                     SortByCount(SubSeq(entries, 1, Len(entries) - 1)))

\* getMajority without its sort: the first entry of counts
GetMajorityUnsorted(values) ==
  LET entries == CountValues(values)
  IN IF entries = <<>> THEN Undef ELSE entries[1].value

\* Object.entries(counts).sort(...)[0]?.[0] ?? null
GetMajority(values) ==
  LET sorted == SortByCount(CountValues(values))
  IN IF sorted = <<>> THEN Undef ELSE sorted[1].value

Field(history, key) ==
  [i \in 1 .. Len(history) |->
     IF key = "depth_zone" THEN history[i].depth_zone ELSE history[i].safety_status]

\* the window push keeping the last three records before it appends
PushHistoryKeepsThree(history, result) ==
  (IF Len(history) <= 3 THEN history ELSE SubSeq(history, Len(history) - 2, Len(history)))
    \o <<result>>

\* [...historyRef.current.slice(-2), result]
PushHistory(history, result) ==
  (IF Len(history) <= 2 THEN history ELSE SubSeq(history, Len(history) - 1, Len(history)))
    \o <<result>>

\* the stable value without the vote: the newest record's own value
StableValueNewest(history, key, own) == own

\* getMajority(history, key) || result[key]: of the keys of counts, which are
\* strings, only the empty one is falsy
StableValue(history, key, own) ==
  LET m == GetMajority(Field(history, key)) IN IF m = Undef \/ m = "" THEN own ELSE m

\* { ...result, depth_zone: stableZone, safety_status: stableStatus }
StableView(history, result) ==
  [result EXCEPT !.depth_zone = StableValue(history, "depth_zone", result.depth_zone),
                 !.safety_status = StableValue(history, "safety_status", result.safety_status)]

\* the early return of runAnalysis without the in-progress gate
EarlyReturnUngated(active, analyzing) == ~active

\* if (!videoRef.current || !isActive || isAnalyzingRef.current) return;
EarlyReturn(active, analyzing) == ~active \/ analyzing

\* the responses the vision service gives the driver
GlotticText ==
  [form |-> "json",
   value |-> [kind |-> "object", hasLandmarks |-> TRUE,
              landmarks |-> Landmarks(Obs(FALSE, 5), Obs(TRUE, 92), Obs(FALSE, 0)),
              depth_zone |-> "glottic", safety_status |-> "safe",
              guidance_message |-> "Advance.", estimated_depth_cm |-> 12,
              image_quality |-> "good"]]

BronchialText ==
  [GlotticText EXCEPT !.value.landmarks = Landmarks(Obs(FALSE, 5), Obs(FALSE, 5), Obs(FALSE, 0)),
                      !.value.depth_zone = "bronchial",
                      !.value.safety_status = "danger"]

EsophagusText ==
  [GlotticText EXCEPT !.form = "fenced",
                      !.value.landmarks = Landmarks(Obs(FALSE, 5), Obs(FALSE, 5), Obs(TRUE, 90)),
                      !.value.depth_zone = "unknown",
                      !.value.image_quality = "no_airway_visible"]

EmptyObjectText == [form |-> "json", value |-> [NullData EXCEPT !.kind = "object"]]

DriverResponses ==
  { [ok |-> TRUE, text |-> t] :
      t \in {GlotticText, BronchialText, EsophagusText, EmptyObjectText} }
  \cup { [ok |-> FALSE, text |-> [form |-> "json", value |-> NullData]] }

SubglotticText ==
  [GlotticText EXCEPT !.value.landmarks = Landmarks(Obs(FALSE, 5), Obs(FALSE, 5), Obs(FALSE, 0)),
                      !.value.depth_zone = "subglottic"]

CarinalText ==
  [SubglotticText EXCEPT !.value.depth_zone = "carinal", !.value.safety_status = "warning"]

\* the responses behind the records the stabilizer is given
StabilizerResponses ==
  DriverResponses \cup {[ok |-> TRUE, text |-> t] : t \in {SubglotticText, CarinalText}}

\* runAnalysis from the return of analyzeFrame to stableRef.current = stable
Ingest(resp) ==
  /\ LET result == AnalyzeFrame(resp)
         history == PushHistory(historyRef, result)
     IN /\ historyRef' = history
        /\ stableRef' = <<StableView(history, result)>>
  /\ UNCHANGED <<isActive, voiceEnabled, analysisInterval, isAnalyzingRef,
                 sinceLastAlert, seenLandmarksRef, inflight, lastRun, frames>>
  /\ UNCHANGED <<audioVars, visionVars, logVars>>

NextStabilizer == \E r \in StabilizerResponses : Ingest(r)

\* time between two returns of analyzeFrame
Delays == {500, 1500}

Min(a, b) == IF a <= b THEN a ELSE b

\* lastRun is history: what the latest runAnalysis step did.  step is
\* "skipped" (early return), "captureThrew", "suspended" (awaiting
\* analyzeFrame) or "returned"; afterPause says that analyzeFrame returned
\* after a stopAnalysis made during the call, with monitoring still paused;
\* threw that determineAlert threw; spoke lists the scheduler calls made.
NoRun == [step |-> "none", afterPause |-> FALSE, threw |-> FALSE, spoke |-> <<>>]

\* the timer fires: runAnalysis up to `await analyzeFrame`; captured is
\* whether captureFrame returned (it threw otherwise, which the catch block
\* logs before the gate is released)
Tick(captured) ==
  /\ analysisInterval
  /\ EarlyReturn(isActive, isAnalyzingRef)
       \/ (frames < MaxFrames /\ Len(inflight) < MaxInflight)
  /\ IF EarlyReturn(isActive, isAnalyzingRef)
     THEN /\ lastRun' = [NoRun EXCEPT !.step = "skipped"]
          /\ UNCHANGED <<isAnalyzingRef, inflight, frames>>
     ELSE /\ frames' = frames + 1
          /\ IF captured
             THEN /\ isAnalyzingRef' = TRUE
                  /\ inflight' = Append(inflight, [voiceEnabled |-> voiceEnabled,
                                                   paused |-> FALSE])
                  /\ lastRun' = [NoRun EXCEPT !.step = "suspended"]
             ELSE /\ isAnalyzingRef' = FALSE
                  /\ lastRun' = [NoRun EXCEPT !.step = "captureThrew"]
                  /\ UNCHANGED inflight
  /\ UNCHANGED <<isActive, voiceEnabled, analysisInterval, historyRef, stableRef,
                 sinceLastAlert, seenLandmarksRef>>
  /\ UNCHANGED <<audioVars, visionVars, logVars>>

\* analyzeFrame returns to the i-th suspended runAnalysis invocation, delay
\* after the previous return: the rest of runAnalysis
AnalysisReturns(i, resp, delay) ==
  /\ i \in 1 .. Len(inflight)
  /\ Cardinality(FreeSlots(procs)) >= 2
  /\ Len(audioQueue) < MaxQueue
  /\ LET run == inflight[i]
         result == AnalyzeFrame(resp)
         history == PushHistory(historyRef, result)
         stable == StableView(history, result)
         prevStable == stableRef
         elapsed == Min(sinceLastAlert + delay, ALERT_COOLDOWN_MS)
         decide == run.voiceEnabled /\ result.success /\ elapsed >= ALERT_COOLDOWN_MS
         alertKey == IF decide THEN DetermineAlert(stable, prevStable) ELSE "null"
         threw == alertKey = Throws
         alerts == alertKey \notin {"null", Throws}
         urgent == /\ ~threw /\ result.success /\ EsophagusVisible(result)
                   /\ "esophagus" \notin seenLandmarksRef
         s1 == IF alerts THEN SpeakAlertFn(Sched, alertKey) ELSE Sched
         s2 == IF urgent THEN SpeakUrgentFn(s1, "esophageal_warning") ELSE s1
     IN /\ historyRef' = history
        /\ stableRef' = <<stable>>
        /\ sinceLastAlert' = IF alerts THEN 0 ELSE elapsed
        /\ seenLandmarksRef' = IF urgent THEN seenLandmarksRef \cup {"esophagus"}
                               ELSE seenLandmarksRef
        /\ Commit(s2)
        /\ quiet' = (quiet /\ ~alerts /\ ~urgent)
        /\ lastRun' = [step |-> "returned",
                       afterPause |-> run.paused /\ ~analysisInterval,
                       threw |-> threw,
                       spoke |-> (IF alerts THEN <<"speakAlert">> ELSE <<>>)
                                 \o (IF urgent THEN <<"speakUrgent">> ELSE <<>>)]
        /\ inflight' = [j \in 1 .. Len(inflight) - 1 |->
                          IF j < i THEN inflight[j] ELSE inflight[j + 1]]
        /\ isAnalyzingRef' = FALSE
  /\ UNCHANGED <<isActive, voiceEnabled, analysisInterval, frames, calls, ignored>>
  /\ UNCHANGED <<visionVars, logVars>>

\* startAnalysis (the button is shown when isActive && !analysisInterval)
StartAnalysis ==
  /\ isActive /\ ~analysisInterval
  /\ analysisInterval' = TRUE
  /\ seenLandmarksRef' = {}
  /\ UNCHANGED <<isActive, voiceEnabled, isAnalyzingRef, historyRef, stableRef,
                 sinceLastAlert, inflight, lastRun, frames>>
  /\ UNCHANGED <<audioVars, visionVars, logVars>>

\* stopAnalysis (the button is shown when analysisInterval)
StopAnalysis ==
  /\ analysisInterval
  /\ analysisInterval' = FALSE
  /\ Commit(StopAllAudioFn(Sched))
  /\ quiet' = TRUE
  /\ inflight' = [j \in 1 .. Len(inflight) |-> [inflight[j] EXCEPT !.paused = TRUE]]
  /\ UNCHANGED <<isActive, voiceEnabled, isAnalyzingRef, historyRef, stableRef,
                 sinceLastAlert, seenLandmarksRef, lastRun, frames, calls, ignored>>
  /\ UNCHANGED <<visionVars, logVars>>

\* startCamera resolves / stopCamera (useWebcam)
SetCamera(on) ==
  /\ isActive # on
  /\ isActive' = on
  /\ UNCHANGED <<voiceEnabled, analysisInterval, isAnalyzingRef, historyRef, stableRef,
                 sinceLastAlert, seenLandmarksRef, inflight, lastRun, frames>>
  /\ UNCHANGED <<audioVars, visionVars, logVars>>

\* setVoiceEnabled(!voiceEnabled)
ToggleVoice ==
  /\ voiceEnabled' = ~voiceEnabled
  /\ UNCHANGED <<isActive, analysisInterval, isAnalyzingRef, historyRef, stableRef,
                 sinceLastAlert, seenLandmarksRef, inflight, lastRun, frames>>
  /\ UNCHANGED <<audioVars, visionVars, logVars>>

InitDriver ==
  /\ isActive = FALSE
  /\ voiceEnabled = TRUE
  /\ analysisInterval = FALSE
  /\ isAnalyzingRef = FALSE
  /\ historyRef = <<>>
  /\ stableRef = <<>>
  /\ sinceLastAlert = ALERT_COOLDOWN_MS
  /\ seenLandmarksRef = {}
  /\ inflight = <<>>
  /\ lastRun = NoRun
  /\ frames = 0

NextDriver ==
  \/ \E on \in BOOLEAN : SetCamera(on)
  \/ ToggleVoice
  \/ StartAnalysis
  \/ StopAnalysis
  \/ \E captured \in BOOLEAN : Tick(captured)
  \/ \E i \in 1 .. MaxInflight, r \in DriverResponses, d \in Delays : AnalysisReturns(i, r, d)
  \/ \E i \in Slots, ok \in BOOLEAN : SynthesisReturns(i, ok)
  \/ \E i \in Slots, o \in PlaybackOutcomes : PlaybackSettles(i, o)

(***************************************************************************)
(* One determineAlert call: decision holds its two arguments and, once it  *)
(* has returned or thrown, its outcome in key ("pending" before).          *)
(***************************************************************************)
NoDecision == [curr |-> FailureRecord, prev |-> <<>>, key |-> "pending"]

\* further responses, which with those above make every rule of
\* determineAlert fire
EpiglottisText ==
  [GlotticText EXCEPT !.value.landmarks =
                        [Landmarks(Obs(FALSE, 5), Obs(FALSE, 5), Obs(FALSE, 0))
                           EXCEPT !["epiglottis"] = Obs(TRUE, 80)],
                      !.value.depth_zone = "pre_glottic"]

TrachealText == [SubglotticText EXCEPT !.value.depth_zone = "tracheal"]

PoorText == [SubglotticText EXCEPT !.value.depth_zone = "unknown", !.value.image_quality = "poor"]

AlertResponses ==
  StabilizerResponses
    \cup {[ok |-> TRUE, text |-> t] : t \in {EpiglottisText, TrachealText, PoorText}}

\* the stable views runAnalysis can hold: the newest record of a window with
\* the window's majority zone and status
StableViews ==
  LET results == {AnalyzeFrame(r) : r \in AlertResponses}
      windows == UNION {[1 .. n -> results] : n \in 1 .. 3}
  IN {StableView(h, h[Len(h)]) : h \in windows}

\* determineAlert returns
DetermineAlertReturns ==
  /\ decision.key = "pending"
  /\ DetermineAlert(decision.curr, decision.prev) # Throws
  /\ decision' = [decision EXCEPT !.key = DetermineAlert(decision.curr, decision.prev)]
  /\ UNCHANGED <<audioVars, driverVars, visionVars, drainLog>>

\* determineAlert throws
DetermineAlertThrows ==
  /\ decision.key = "pending"
  /\ DetermineAlert(decision.curr, decision.prev) = Throws
  /\ decision' = [decision EXCEPT !.key = Throws]
  /\ UNCHANGED <<audioVars, driverVars, visionVars, drainLog>>

NextAlert == DetermineAlertReturns \/ DetermineAlertThrows

(***************************************************************************)
(* The record of a draining queue.  enqueued lists the texts passed to     *)
(* speakAlert / speakCustom and pending the items still in the queue, both *)
(* in the order of the calls; played lists the texts whose playback began; *)
(* taken is the text processQueue took last ("" when none) and before the  *)
(* pending items at that moment; early says that every call so far was     *)
(* made before any playback settled, settled that one has.                 *)
(***************************************************************************)
NoLog == [enqueued |-> <<>>, pending |-> <<>>, played |-> <<>>,
          taken |-> "", before |-> <<>>, early |-> TRUE, settled |-> FALSE]

\* seq without its first element of that text
RemoveFirst(seq, text) ==
  LET at == {i \in 1 .. Len(seq) : seq[i].text = text}
      first == CHOOSE i \in at : \A j \in at : i <= j
  IN IF at = {} THEN seq
     ELSE [i \in 1 .. Len(seq) - 1 |-> IF i < first THEN seq[i] ELSE seq[i + 1]]

\* the record after a step from scheduler state s0 to s1 in which the items
\* of pushed were enqueued, with no speakUrgent or stopAllAudio in the run:
\* at most one invocation is in flight, so an item was taken when the queue
\* is shorter than the push made it, and it is the one in flight in s1
Logged(log, s0, s1, pushed, settles) ==
  LET pend == log.pending \o pushed
      took == Len(s1.audioQueue) < Len(s0.audioQueue) + Len(pushed)
      slot == CHOOSE i \in Slots : s1.procs[i].pc # "free"
      text == s1.procs[slot].text
      began == \E i \in Slots : /\ s1.procs[i].pc = "play"
                                /\ (took \/ s0.procs[i].pc = "synth")
  IN [enqueued |-> log.enqueued \o [i \in 1 .. Len(pushed) |-> pushed[i].text],
      pending |-> IF took THEN RemoveFirst(pend, text) ELSE pend,
      played |-> IF began
                 THEN Append(log.played,
                             s1.procs[CHOOSE i \in Slots : s1.procs[i].pc = "play"].text)
                 ELSE log.played,
      taken |-> IF took THEN text ELSE log.taken,
      before |-> IF took THEN pend ELSE log.before,
      early |-> log.early /\ (pushed = <<>> \/ ~log.settled),
      settled |-> log.settled \/ settles]

\* speakAlert(alertKey), recorded
DrainSpeakAlert(alertKey) ==
  /\ CanCall
  /\ Len(audioQueue) < MaxQueue \/ ~isPlaying \/ alertKey \notin AlertKeys
  /\ Commit(SpeakAlertFn(Sched, alertKey))
  /\ drainLog' = Logged(drainLog, Sched, SpeakAlertFn(Sched, alertKey),
                        IF alertKey \in AlertKeys
                        THEN <<[text |-> ALERT_DEFINITIONS[alertKey].text,
                                priority |-> ALERT_DEFINITIONS[alertKey].priority]>>
                        ELSE <<>>, FALSE)
  /\ quiet' = (quiet /\ alertKey \notin AlertKeys)
  /\ calls' = calls + 1
  /\ ignored' = (ignored \/ (alertKey \notin AlertKeys /\ isPlaying /\ audioQueue # <<>>))
  /\ UNCHANGED <<driverVars, visionVars, decision>>

\* speakCustom(text, priority), recorded
DrainSpeakCustom(text, priority) ==
  /\ CanCall
  /\ Len(audioQueue) < MaxQueue \/ ~isPlaying
  /\ Commit(SpeakCustomFn(Sched, text, priority))
  /\ drainLog' = Logged(drainLog, Sched, SpeakCustomFn(Sched, text, priority),
                        <<[text |-> text, priority |-> priority]>>, FALSE)
  /\ quiet' = FALSE
  /\ calls' = calls + 1
  /\ UNCHANGED ignored
  /\ UNCHANGED <<driverVars, visionVars, decision>>

\* generateSpeech settles, recorded
DrainSynthesisReturns(slot, ok) ==
  /\ procs[slot].pc = "synth"
  /\ Commit(AfterSynthesis(Sched, slot, ok))
  /\ drainLog' = Logged(drainLog, Sched, AfterSynthesis(Sched, slot, ok), <<>>, FALSE)
  /\ UNCHANGED <<quiet, calls, ignored, driverVars, visionVars, decision>>

\* the playback settles, recorded
DrainPlaybackSettles(slot, outcome) ==
  /\ procs[slot].pc = "play"
  /\ Commit(AfterPlayback(Sched, slot, outcome))
  /\ drainLog' = Logged(drainLog, Sched, AfterPlayback(Sched, slot, outcome), <<>>, TRUE)
  /\ UNCHANGED <<quiet, calls, ignored, driverVars, visionVars, decision>>

NextDrain ==
  \/ \E k \in SpeakAlertKeys : DrainSpeakAlert(k)
  \/ \E t \in CustomTexts, p \in CustomPriorities : DrainSpeakCustom(t, p)
  \/ \E i \in Slots, ok \in BOOLEAN : DrainSynthesisReturns(i, ok)
  \/ \E i \in Slots, o \in PlaybackOutcomes : DrainPlaybackSettles(i, o)

(***************************************************************************)
(* The specifications: the scheduler under any caller (Spec), the          *)
(* dashboard driving the scheduler (SpecDriver), one analyzeFrame call     *)
(* (SpecVision), the stabilizer fed frame after frame (SpecStabilizer),    *)
(* one determineAlert call (SpecAlert) and the queue draining with no      *)
(* speakUrgent or stopAllAudio call (SpecDrain).                           *)
(***************************************************************************)
NoResponse == [ok |-> FALSE, text |-> [form |-> "json", value |-> NullData]]

Init ==
  /\ InitAudio
  /\ InitDriver
  /\ response = NoResponse
  /\ returned = <<FailureRecord>>
  /\ decision = NoDecision
  /\ drainLog = NoLog

Next == NextAudio

Spec == Init /\ [][Next]_vars

SpecDriver == Init /\ [][NextDriver]_vars

InitVision ==
  /\ InitAudio
  /\ InitDriver
  /\ response \in ResponseInputs
  /\ returned = <<>>
  /\ decision = NoDecision
  /\ drainLog = NoLog

NextVision == VisionResolves \/ VisionRejects

SpecVision == InitVision /\ [][NextVision]_vars

SpecStabilizer == Init /\ [][NextStabilizer]_vars

InitAlert ==
  /\ InitAudio
  /\ InitDriver
  /\ response = NoResponse
  /\ returned = <<FailureRecord>>
  /\ decision \in {[curr |-> c, prev |-> p, key |-> "pending"] :
                     c \in StableViews, p \in {<<>>} \cup {<<v>> : v \in StableViews}}
  /\ drainLog = NoLog


SpecAlert == InitAlert /\ [][NextAlert]_vars

SpecDrain == Init /\ [][NextDrain]_vars

\* the draining queue when every generateSpeech call and every playback
\* settles
NextDrainBounded == NextDrain /\ Len(drainLog'.enqueued) <= MaxEnqueues

SpecDrainFair ==
  /\ Init /\ [][NextDrainBounded]_vars
  /\ WF_vars(\E i \in Slots, ok \in BOOLEAN : DrainSynthesisReturns(i, ok))
  /\ WF_vars(\E i \in Slots, o \in PlaybackOutcomes : DrainPlaybackSettles(i, o))

\* longest run of frames showing the esophagus that is counted
MaxRun == 4

\* decision for a stream of frames: the latest determineAlert call, and as
\* history whether a frame not showing the esophagus has been ingested
\* (base), how many frames showing it have followed the last such frame
\* (run) and whether determineAlert returned esophageal_warning at one of
\* them (warned)
NoStream == [curr |-> FailureRecord, prev |-> <<>>, key |-> "pending",
             base |-> FALSE, run |-> 0, warned |-> FALSE]

\* runAnalysis from the return of analyzeFrame to the determineAlert call,
\* with voice enabled and the cooldown over: the record is ingested and the
\* new and the previous stable view are given to determineAlert (a throw is
\* caught by runAnalysis after stableRef has been advanced)
IngestAndDetermine(resp) ==
  /\ LET result == AnalyzeFrame(resp)
         history == PushHistory(historyRef, result)
         stable == StableView(history, result)
         key == DetermineAlert(stable, stableRef)
         shown == EsophagusVisible(result)
     IN /\ shown => decision.run < MaxRun
        /\ historyRef' = history
        /\ stableRef' = <<stable>>
        /\ decision' = [curr |-> stable, prev |-> stableRef, key |-> key,
                        base |-> decision.base \/ ~shown,
                        run |-> IF shown /\ decision.base THEN decision.run + 1 ELSE 0,
                        warned |-> shown /\ decision.base
                                   /\ (decision.warned \/ key = "esophageal_warning")]
  /\ UNCHANGED <<isActive, voiceEnabled, analysisInterval, isAnalyzingRef,
                 sinceLastAlert, seenLandmarksRef, inflight, lastRun, frames>>
  /\ UNCHANGED <<audioVars, visionVars, drainLog>>

NextStream == \E r \in StabilizerResponses : IngestAndDetermine(r)

InitStream ==
  /\ InitAudio
  /\ InitDriver
  /\ response = NoResponse
  /\ returned = <<>>
  /\ decision = NoStream
  /\ drainLog = NoLog

SpecStream == InitStream /\ [][NextStream]_vars

\* decision for one monitoring session: the latest determineAlert call (key
\* "null" when it was not made) and, as history, how many frames in a row
\* the stable view has been (danger, bronchial) since a successful frame at
\* which it entered that state from a view of another zone, or from none
\* (run), whether danger_bronchial was handed to speakAlert at one of those
\* frames (warned), and how many speakUrgent calls the session has made
\* (urgents)
NoSession == [curr |-> FailureRecord, prev |-> <<>>, key |-> "pending",
              run |-> 0, warned |-> FALSE, urgents |-> 0]

\* the urgent esophagus call made at every frame that shows the esophagus
UrgentDueEveryFrame(result, seen) == result.success /\ EsophagusVisible(result)

\* result.success && result.landmarks?.esophagus?.visible
\*   && !seenLandmarksRef.current.has('esophagus')
UrgentDue(result, seen) ==
  result.success /\ EsophagusVisible(result) /\ "esophagus" \notin seen

\* one whole runAnalysis, from the timer to isAnalyzingRef.current = false,
\* when nothing else runs while analyzeFrame is awaited
RunAnalysis(resp, delay) ==
  /\ analysisInterval
  /\ ~EarlyReturn(isActive, isAnalyzingRef)
  /\ inflight = <<>>
  /\ \E result \in {AnalyzeFrame(resp)} :
     \E history \in {PushHistory(historyRef, result)} :
     \E stable \in {StableView(history, result)} :
     \E alertKey \in
        {IF /\ voiceEnabled /\ result.success
            /\ Min(sinceLastAlert + delay, ALERT_COOLDOWN_MS) >= ALERT_COOLDOWN_MS
         THEN DetermineAlert(stable, stableRef) ELSE "null"} :
     LET prevStable == stableRef
         elapsed == Min(sinceLastAlert + delay, ALERT_COOLDOWN_MS)
         threw == alertKey = Throws
         alerts == alertKey \notin {"null", Throws}
         urgent == ~threw /\ UrgentDue(result, seenLandmarksRef)
         s1 == IF alerts THEN SpeakAlertFn(Sched, alertKey) ELSE Sched
         s2 == IF urgent THEN SpeakUrgentFn(s1, "esophageal_warning") ELSE s1
         inState == /\ voiceEnabled /\ result.success
                    /\ stable.safety_status = "danger" /\ stable.depth_zone = "bronchial"
         enters == inState /\ (prevStable = <<>> \/ prevStable[1].depth_zone # "bronchial")
         stays == inState /\ decision.run > 0
     IN /\ stays => decision.run < MaxRun
        /\ urgent => decision.urgents < 2
        /\ alerts => Len(audioQueue) < MaxQueue
        /\ Cardinality(FreeSlots(procs)) >=
             (IF alerts /\ ~isPlaying THEN 1 ELSE 0) + (IF urgent THEN 1 ELSE 0)
        /\ historyRef' = history
        /\ stableRef' = <<stable>>
        /\ sinceLastAlert' = IF alerts THEN 0 ELSE elapsed
        /\ seenLandmarksRef' = IF urgent THEN seenLandmarksRef \cup {"esophagus"}
                               ELSE seenLandmarksRef
        /\ Commit(s2)
        /\ quiet' = (quiet /\ ~alerts /\ ~urgent)
        /\ lastRun' = [step |-> "returned", afterPause |-> FALSE, threw |-> threw,
                       spoke |-> (IF alerts THEN <<"speakAlert">> ELSE <<>>)
                                 \o (IF urgent THEN <<"speakUrgent">> ELSE <<>>)]
        /\ decision' = [curr |-> stable, prev |-> prevStable, key |-> alertKey,
                        run |-> IF enters THEN 1
                                ELSE IF stays THEN decision.run + 1 ELSE 0,
                        warned |-> /\ enters \/ stays
                                   /\ \/ stays /\ decision.warned
                                      \/ alertKey = "danger_bronchial",
                        urgents |-> decision.urgents + (IF urgent THEN 1 ELSE 0)]
  /\ UNCHANGED <<isActive, voiceEnabled, analysisInterval, isAnalyzingRef, inflight,
                 frames, calls, ignored>>
  /\ UNCHANGED <<visionVars, drainLog>>

\* the camera is on and monitoring has been started once
InitSession ==
  /\ InitAudio
  /\ isActive = TRUE
  /\ voiceEnabled = TRUE
  /\ analysisInterval = TRUE
  /\ isAnalyzingRef = FALSE
  /\ historyRef = <<>>
  /\ stableRef = <<>>
  /\ sinceLastAlert = ALERT_COOLDOWN_MS
  /\ seenLandmarksRef = {}
  /\ inflight = <<>>
  /\ lastRun = NoRun
  /\ frames = 0
  /\ response = NoResponse
  /\ returned = <<>>
  /\ decision = NoSession
  /\ drainLog = NoLog

\* the frames of a session whose audio requests are still pending
NextSession == \E r \in DriverResponses, d \in Delays : RunAnalysis(r, d)

SpecSession == InitSession /\ [][NextSession]_vars

TypeOK ==
  /\ isPlaying \in BOOLEAN
  /\ currentAudio \in Slots \cup {0, DeadAudio}
  /\ Len(audioQueue) <= MaxQueue
  /\ \A i \in Slots : procs[i].pc \in {"free", "synth", "play"}
  /\ Len(historyRef) <= 3
  /\ Len(inflight) <= MaxInflight
  /\ ignored \in BOOLEAN

(***************************************************************************)
(* Claims about the audio scheduler.                                       *)
(***************************************************************************)
\* C1: in every reachable state at most one audio object is playing, and it
\* is the one currentAudio refers to; so a playback only starts once the
\* previously playing audio has been stopped or has finished.
C1_AtMostOnePlaying ==
  /\ Cardinality(Playing(procs)) <= 1
  /\ \A i \in Playing(procs) : currentAudio = i

\* a playback that started while another invocation was still in flight
C1_Witness ==
  \E i, j \in Slots : /\ procs[i].pc = "play" /\ procs[i].superseded
                      /\ procs[j].pc = "synth"

\* C2 (as claimed): after a speakUrgent call, no ordinary item that had been
\* taken from the queue before the call is playing.
C2_NoPreemptedItemPlays ==
  \A i \in Slots :
    ~(procs[i].kind = "queue" /\ procs[i].superseded /\ procs[i].pc = "play")

\* C3 (as claimed): after a newer speakUrgent call, the audio of an earlier
\* speakUrgent request is never playing.
C3_NewerUrgentWins ==
  \A i \in Slots :
    ~(procs[i].kind = "urgent" /\ procs[i].superseded /\ procs[i].pc = "play")

\* C4: a speakUrgent call made while a queued item is playing and two items
\* are pending leaves the queue empty and the queued item's audio stopped,
\* with the urgent request in flight (playing at once when its text is
\* cached, playing as soon as its synthesis returns otherwise); and when the
\* urgent playback ends with nothing enqueued since the call, the queue is
\* empty and isPlaying is false.
C4_UrgentScenario ==
  [][ /\ \A k \in SpeakUrgentKeys \cap AlertKeys :
           (UrgentScenario(Sched) /\ SpeakUrgent(k)) =>
             /\ audioQueue' = <<>>
             /\ isPlaying'
             /\ \A i \in Slots : ~(procs'[i].kind = "queue" /\ procs'[i].pc = "play")
             /\ \E i \in Slots :
                  /\ procs'[i].kind = "urgent" /\ procs'[i].scenario
                  /\ procs'[i].text = ALERT_DEFINITIONS[k].text
                  /\ procs'[i].pc = IF ALERT_DEFINITIONS[k].text \in audioCache
                                    THEN "play" ELSE "synth"
                  /\ procs'[i].pc = "play" => currentAudio' = i
      /\ \A i \in Slots :
           (procs[i].kind = "urgent" /\ procs[i].scenario /\ SynthesisReturns(i, TRUE)) =>
             (procs'[i].pc = "play" /\ currentAudio' = i)
      /\ \A i \in Slots :
           (/\ procs[i].kind = "urgent" /\ procs[i].scenario /\ ~procs[i].enqueued
            /\ PlaybackSettles(i, "ended")) =>
             (audioQueue' = <<>> /\ ~isPlaying')
    ]_vars

\* the urgent message of the scenario is playing, nothing enqueued since
C4_Witness ==
  \E i \in Slots : /\ procs[i].kind = "urgent" /\ procs[i].scenario
                   /\ procs[i].pc = "play" /\ ~procs[i].enqueued
                   /\ audioQueue = <<>>

\* C5 (as claimed): after stopAllAudio, no audio is playing until a later
\* speakAlert, speakCustom or speakUrgent call.
C5_SilentAfterStop == quiet => Playing(procs) = {}

\* C6: right after stopAllAudio, whatever the state it was called in, the
\* queue is empty, currentAudio is null, no audio is playing and isPlaying
\* is false.
C6_StopAllAudioEffect ==
  [][ StopAllAudio =>
        /\ audioQueue' = <<>>
        /\ currentAudio' = 0
        /\ Playing(procs') = {}
        /\ ~isPlaying' ]_vars

\* stopAllAudio was called while a synthesis call was pending
C6_Witness ==
  /\ quiet /\ audioQueue = <<>> /\ currentAudio = 0 /\ ~isPlaying
  /\ \E i \in Slots : procs[i].pc = "synth"

(***************************************************************************)
(* Claims about the analysis loop.                                         *)
(***************************************************************************)
\* C7 (as claimed): when analyzeFrame returns after a stopAnalysis made
\* during the call, with monitoring still paused, the result is dropped: the
\* history window and the previous stable view do not change and neither
\* speakAlert nor speakUrgent is called.
C7_LateResultDropped ==
  [][ \A i \in 1 .. MaxInflight, r \in DriverResponses, d \in Delays :
        (/\ i <= Len(inflight) /\ inflight[i].paused /\ ~analysisInterval
         /\ AnalysisReturns(i, r, d)) =>
          (UNCHANGED <<historyRef, stableRef>> /\ lastRun'.spoke = <<>>)
    ]_vars

\* C8: at most one analyzeFrame call is in flight and the gate is set
\* exactly while one is (so it is released when a run returns or throws);
\* a timer tick that fires while the gate is set captures no frame and
\* starts no call.
C8_SingleInflight ==
  /\ [](/\ Len(inflight) <= 1
        /\ isAnalyzingRef <=> Len(inflight) = 1)
  /\ [][ (isAnalyzingRef /\ \E c \in BOOLEAN : Tick(c)) =>
           (UNCHANGED <<inflight, frames, isAnalyzingRef>> /\ lastRun'.step = "skipped")
       ]_vars

\* a tick was skipped while a call was in flight, after an earlier run had
\* thrown or returned and released the gate
C8_Witness ==
  /\ lastRun.step = "skipped" /\ isActive
  /\ Len(inflight) = 1 /\ isAnalyzingRef /\ frames >= 2

\* C9 (as claimed): one run of runAnalysis makes at most one call of
\* speakAlert or speakUrgent.
C9_AtMostOneAlertPerFrame == Len(lastRun.spoke) <= 1

(***************************************************************************)
(* Claims about analyzeFrame.                                              *)
(***************************************************************************)
\* the response text lacks a required key
LacksRequiredKey(text) ==
  LET v == text.value
  IN \/ v.kind # "object"
     \/ ~v.hasLandmarks
     \/ \E l \in LandmarkIds : ~v.landmarks[l].present
     \/ Undef \in {v.depth_zone, v.safety_status, v.guidance_message, v.image_quality}
     \/ v.estimated_depth_cm = NoNumber

\* C10 (as claimed): for a response text of a successful vision call that
\* lacks a required key, the returned record has all six landmark keys and
\* has depth_zone, safety_status, guidance_message, estimated_depth_cm and
\* image_quality populated, a key the text lacks having its default
\* (unknown, safe or the escalation's danger, poor).
C10_DefaultsForMissingKeys ==
  (returned # <<>> /\ response.ok /\ LacksRequiredKey(response.text)) =>
    LET r == returned[1]
        v == response.text.value
    IN /\ r.hasLandmarks
       /\ \A l \in LandmarkIds : r.landmarks[l].present
       /\ Undef \notin {r.depth_zone, r.safety_status, r.guidance_message, r.image_quality}
       /\ r.estimated_depth_cm # NoNumber
       /\ v.depth_zone = Undef => r.depth_zone = "unknown"
       /\ v.safety_status = Undef => r.safety_status \in {"safe", "danger"}
       /\ v.image_quality = Undef => r.image_quality = "poor"

\* what the recovery tiers make of the response text
Parsed == Recover(Clean(response.text))

\* C11 (as claimed): every record analyzeFrame returns has depth_zone among
\* the seven zones and safety_status among safe, warning and danger, whatever
\* the response text held.
C11_ZoneAndStatusEnumerated ==
  returned # <<>> =>
    /\ returned[1].depth_zone \in
         {"pre_glottic", "glottic", "subglottic", "tracheal", "carinal", "bronchial", "unknown"}
    /\ returned[1].safety_status \in {"safe", "warning", "danger"}

\* C12 (as claimed): whenever the parsed record has its esophagus landmark
\* visible, the returned record has safety_status danger and depth_zone
\* unknown, whatever the other fields are.
C12_VisibleEsophagusIsDanger ==
  (returned # <<>> /\ response.ok /\ EsophagusVisible(Parsed)) =>
    (returned[1].safety_status = "danger" /\ returned[1].depth_zone = "unknown")

\* C12 (amended): whenever the parsed record has its esophagus landmark
\* visible with a confidence that is not below 0.3, the returned record has
\* safety_status danger and depth_zone unknown, whatever image_quality and
\* the other fields are.
C12_GatedEsophagusIsDanger ==
  (/\ returned # <<>> /\ response.ok /\ EsophagusVisible(Parsed)
   /\ ~BelowGate(Parsed.landmarks["esophagus"].confidence)) =>
    (returned[1].safety_status = "danger" /\ returned[1].depth_zone = "unknown")

\* an esophagus seen in a frame classified as showing no airway was escalated
C12_Witness ==
  /\ returned # <<>> /\ response.ok
  /\ Parsed.image_quality = "no_airway_visible" /\ Parsed.safety_status = "safe"
  /\ Parsed.landmarks["esophagus"] = Obs(TRUE, 90)
  /\ returned[1].safety_status = "danger" /\ returned[1].depth_zone = "unknown"

\* C13: in every returned record a landmark whose confidence is below 0.3 is
\* not visible, and the confidence is the one the parsed record had (0 for a
\* landmark the no-airway rule blanked).
C13_LowConfidenceNotVisible ==
  returned # <<>> =>
    /\ \A l \in LandmarkIds :
         (/\ returned[1].hasLandmarks /\ returned[1].landmarks[l].present
          /\ BelowGate(returned[1].landmarks[l].confidence)) =>
           ~returned[1].landmarks[l].visible
    /\ (response.ok /\ Parsed.kind = "object") =>
         \A l \in LandmarkIds :
           returned[1].landmarks[l].confidence =
             IF /\ Parsed.image_quality = "no_airway_visible"
                /\ (l # "esophagus" \/ ~Parsed.hasLandmarks \/ ~Parsed.landmarks[l].present)
             THEN 0
             ELSE Parsed.landmarks[l].confidence

\* a landmark reported visible with confidence 0.29 was gated
C13_Witness ==
  /\ returned # <<>> /\ response.ok
  /\ Parsed.kind = "object" /\ Parsed.landmarks["esophagus"] = Obs(TRUE, 29)
  /\ returned[1].landmarks["esophagus"] = Obs(FALSE, 29)

\* C14: a returned record whose depth_zone is one of the six named zones has
\* the estimated_depth_cm of the table for that zone (3.5 cm for carinal),
\* whatever number the response gave.
C14_DepthFromZone ==
  returned # <<>> =>
    /\ returned[1].depth_zone \in DOMAIN ZONE_DEPTH_CM \ {"unknown"} =>
         returned[1].estimated_depth_cm = ZONE_DEPTH_CM[returned[1].depth_zone]
    /\ returned[1].depth_zone = "carinal" => returned[1].estimated_depth_cm = 35

\* a carinal record whose response gave another depth
C14_Witness ==
  /\ returned # <<>> /\ response.ok
  /\ Parsed.estimated_depth_cm = 12
  /\ returned[1].depth_zone = "carinal" /\ returned[1].estimated_depth_cm = 35

(***************************************************************************)
(* Claims about the stabilizer.                                            *)
(***************************************************************************)
\* C15: for every window of one to three records, the stabilized depth_zone
\* and, independently, the stabilized safety_status are the value the window
\* holds most often, and among values held equally often the one whose first
\* occurrence is oldest; the windows glottic, glottic, subglottic and
\* glottic, subglottic both give glottic.  (A record without the key holds
\* no value.)
C15_MajorityOldestFirst ==
  stableRef # <<>> =>
    /\ Len(historyRef) \in 1 .. 3
    /\ \A key \in {"depth_zone", "safety_status"} :
         LET values == Field(historyRef, key)
             stable == IF key = "depth_zone" THEN stableRef[1].depth_zone
                       ELSE stableRef[1].safety_status
             held == {i \in 1 .. Len(values) : values[i] # Undef}
             count(v) == Cardinality({i \in held : values[i] = v})
             first(v) == CHOOSE i \in held : values[i] = v /\ \A j \in held : values[j] = v => i <= j
         IN held # {} =>
              /\ stable \in {values[i] : i \in held}
              /\ \A i \in held :
                   \/ count(values[i]) < count(stable)
                   \/ count(values[i]) = count(stable) /\ first(stable) <= first(values[i])
    /\ Field(historyRef, "depth_zone") \in
         {<<"glottic", "glottic", "subglottic">>, <<"glottic", "subglottic">>} =>
           stableRef[1].depth_zone = "glottic"

\* a tie in a window that is not full: glottic, then subglottic
C15_Witness ==
  /\ stableRef # <<>>
  /\ Field(historyRef, "depth_zone") = <<"glottic", "subglottic">>
  /\ stableRef[1].depth_zone = "glottic"
  /\ stableRef[1].landmarks = historyRef[2].landmarks


(***************************************************************************)
(* Claims about determineAlert.                                            *)
(***************************************************************************)
\* C16 (as claimed): for every current stable view and every previous stable
\* view or none, determineAlert returns the key of the first matching rule of
\* the ordered list 1 to 8 (danger_bronchial, esophageal_warning,
\* warning_deep, vocal_cords_detected, epiglottis_detected, optimal_depth,
\* entering_trachea, poor_image), and none when no rule matches.
C16_OrderedRuleList ==
  decision.key # "pending" =>
    LET curr == decision.curr
        some == decision.prev # <<>>
        prev == IF some THEN decision.prev[1] ELSE curr
        appeared(l) == some /\ Visible(curr, l) /\ ~Visible(prev, l)
    IN decision.key =
         IF /\ curr.safety_status = "danger" /\ curr.depth_zone = "bronchial"
            /\ (~some \/ prev.depth_zone # "bronchial")
           THEN "danger_bronchial"
         ELSE IF /\ curr.safety_status = "danger" /\ Visible(curr, "esophagus")
                 /\ ~(some /\ Visible(prev, "esophagus"))
           THEN "esophageal_warning"
         ELSE IF curr.safety_status = "warning" /\ (~some \/ prev.safety_status # "warning")
           THEN "warning_deep"
         ELSE IF appeared("vocal_cords") THEN "vocal_cords_detected"
         ELSE IF appeared("epiglottis") THEN "epiglottis_detected"
         ELSE IF some /\ curr.depth_zone = "tracheal" /\ prev.depth_zone # "tracheal"
           THEN "optimal_depth"
         ELSE IF some /\ curr.depth_zone = "subglottic" /\ prev.depth_zone = "glottic"
           THEN "entering_trachea"
         ELSE IF curr.image_quality = "poor" /\ (~some \/ prev.image_quality # "poor")
           THEN "poor_image"
         ELSE "null"

\* C17: determineAlert returns vocal_cords_detected only if there is a
\* previous view, vocal_cords is visible in the current view and it was not
\* visible in the previous one.
C17_VocalCordsOnlyOnAppearance ==
  decision.key = "vocal_cords_detected" =>
    /\ decision.prev # <<>>
    /\ Visible(decision.curr, "vocal_cords")
    /\ ~Visible(decision.prev[1], "vocal_cords")

\* vocal_cords_detected was returned
C17_Witness ==
  /\ decision.key = "vocal_cords_detected"
  /\ decision.prev # <<>> /\ decision.prev[1].depth_zone = "pre_glottic"

\* C18 (as claimed): for every stable view v, determineAlert(v, v) returns
\* none.
C18_NoneOnUnchangedView ==
  (decision.key # "pending" /\ decision.prev = <<decision.curr>>) =>
    decision.key = "null"

(***************************************************************************)
(* Claims about the draining queue.                                        *)
(***************************************************************************)
\* C19 (as claimed): from the idle scheduler with an empty queue, after items
\* of priorities 2, 5 and 1 are enqueued in that order, each before any
\* playback has completed, the items are played in the order 5, 2, 1 (an
\* item whose synthesis fails is not played).
C19_PlayedByPriority ==
  LET t2 == ALERT_DEFINITIONS["vocal_cords_detected"].text
      t5 == ALERT_DEFINITIONS["danger_bronchial"].text
      t1 == ALERT_DEFINITIONS["epiglottis_detected"].text
  IN (drainLog.enqueued = <<t2, t5, t1>> /\ drainLog.early) =>
       drainLog.played \in {<<>>, <<t5>>, <<t2>>, <<t1>>, <<t5, t2>>, <<t5, t1>>,
                            <<t2, t1>>, <<t5, t2, t1>>}

\* C19 (amended): from the idle scheduler with an empty queue, after items
\* of priorities 2, 5 and 1 are enqueued in that order, each before any
\* playback has completed, the items are played in the order 2, 5, 1: the
\* first call finds the scheduler idle and its item is taken at once.
C19_FirstThenByPriority ==
  LET t2 == ALERT_DEFINITIONS["vocal_cords_detected"].text
      t5 == ALERT_DEFINITIONS["danger_bronchial"].text
      t1 == ALERT_DEFINITIONS["epiglottis_detected"].text
  IN (drainLog.enqueued = <<t2, t5, t1>> /\ drainLog.early) =>
       drainLog.played \in {<<>>, <<t2>>, <<t5>>, <<t1>>, <<t2, t5>>, <<t2, t1>>,
                            <<t5, t1>>, <<t2, t5, t1>>}

\* the three items were enqueued before any playback completed and all three
\* have been played
C19_Witness ==
  /\ drainLog.early /\ Len(drainLog.enqueued) = 3 /\ Len(drainLog.played) = 3
  /\ drainLog.played[1] = ALERT_DEFINITIONS["vocal_cords_detected"].text
  /\ drainLog.played[2] = ALERT_DEFINITIONS["danger_bronchial"].text
  /\ drainLog.played[3] = ALERT_DEFINITIONS["epiglottis_detected"].text

\* C20: whenever processQueue takes an item, the item has the highest
\* priority among the pending items and, among the pending items of that
\* priority, is the one enqueued first, after any sequence of enqueues and
\* earlier drains.
C20_HighestPriorityEarliestFirst ==
  drainLog.taken # "" =>
    \E i \in 1 .. Len(drainLog.before) :
      /\ drainLog.before[i].text = drainLog.taken
      /\ \A j \in 1 .. Len(drainLog.before) :
           /\ drainLog.before[j].priority <= drainLog.before[i].priority
           /\ drainLog.before[j].priority = drainLog.before[i].priority => i <= j

\* an item was taken while another of its priority, enqueued after it, was
\* pending, by a processQueue call that was not the first of the run
C20_Witness ==
  /\ Len(drainLog.before) = 2 /\ Len(drainLog.enqueued) >= 3
  /\ drainLog.before[1].priority = drainLog.before[2].priority
  /\ drainLog.before[1].text # drainLog.before[2].text
  /\ drainLog.taken = drainLog.before[1].text

\* C21: when the synthesis or the playback of a queued item fails, the item
\* is dropped and not retried (the pending items are the same ones, less the
\* one taken next), a failed synthesis stores nothing in the cache,
\* isPlaying is cleared and the drain goes on: the next pending item is
\* taken, and with none pending the scheduler is idle.
C21_FailedItemDropped ==
  [][ \A i \in Slots :
        (\/ DrainSynthesisReturns(i, FALSE)
         \/ \E o \in {"error", "playRejected"} : DrainPlaybackSettles(i, o)) =>
          LET inflight1 == {j \in Slots : procs'[j].pc # "free"}
              occurs(q, t) == Cardinality({n \in 1 .. Len(q) : q[n].text = t})
          IN /\ procs[i].pc = "synth" => audioCache' = audioCache
             /\ audioCache \subseteq audioCache'
             /\ \A t \in {audioQueue[n].text : n \in 1 .. Len(audioQueue)}
                         \cup {procs[i].text} :
                  occurs(audioQueue', t)
                    + Cardinality({j \in inflight1 : procs'[j].text = t})
                  = occurs(audioQueue, t)
             /\ IF audioQueue = <<>>
                THEN ~isPlaying' /\ inflight1 = {}
                ELSE /\ isPlaying' /\ Cardinality(inflight1) = 1
                     /\ Len(audioQueue') = Len(audioQueue) - 1
    ]_vars

\* the first of two items was dropped, its synthesis having failed, and the
\* second was played
C21_Witness ==
  /\ Len(drainLog.enqueued) = 2 /\ drainLog.enqueued[1] # drainLog.enqueued[2]
  /\ drainLog.played = <<drainLog.enqueued[2]>>
  /\ drainLog.pending = <<>>
  /\ drainLog.enqueued[1] \notin audioCache

\* C22 (as claimed): the synthesis service completes successfully at most
\* once for each message text: no synthesis call returns audio for a text
\* the cache already holds.
C22_SynthesizedOnce ==
  [][ \A i \in Slots : SynthesisReturns(i, TRUE) => procs[i].text \notin audioCache ]_vars

\* C23 (as claimed): analyzeFrame always returns a record: the fixed default
\* record (success false, the six landmarks not visible with confidence 0,
\* depth_zone unknown, safety_status safe, image_quality poor) when the
\* vision call failed, and a record with success true when it succeeded.
C23_SuccessOnVisionSuccess ==
  returned # <<>> =>
    IF response.ok
    THEN returned[1].success
    ELSE /\ ~returned[1].success
         /\ returned[1].hasLandmarks
         /\ \A l \in LandmarkIds : returned[1].landmarks[l] = Obs(FALSE, 0)
         /\ returned[1].depth_zone = "unknown"
         /\ returned[1].safety_status = "safe"
         /\ returned[1].image_quality = "poor"

\* C24: in a run with no speakUrgent and no stopAllAudio call in which every
\* synthesis call and every playback settles, the scheduler ends up idle for
\* good (queue empty, isPlaying false, nothing in flight) with no item left
\* pending: every enqueued item was taken, and was played or dropped by its
\* own failure.
C24_DrainsToIdle ==
  <>[](/\ audioQueue = <<>> /\ ~isPlaying
       /\ \A i \in Slots : procs[i].pc = "free"
       /\ drainLog.pending = <<>>)

\* idle after three items, of which one was dropped and two were played
C24_Witness ==
  /\ audioQueue = <<>> /\ ~isPlaying /\ \A i \in Slots : procs[i].pc = "free"
  /\ Len(drainLog.enqueued) = 3 /\ Len(drainLog.played) = 2
  /\ drainLog.pending = <<>>

\* C25 (as claimed): when a speakUrgent request finishes, whether its audio
\* played, its synthesis failed or its playback failed, isPlaying is cleared
\* and draining resumes: with items pending the next one is taken at that
\* moment, with none the scheduler is left not busy.
C25_UrgentCompletionResumesDrain ==
  [][ \A i \in Slots :
        (/\ procs[i].kind = "urgent"
         /\ \A j \in Slots \ {i} : procs[j].pc = "free"
         /\ \/ SynthesisReturns(i, FALSE)
            \/ \E o \in PlaybackOutcomes : PlaybackSettles(i, o)) =>
          IF audioQueue = <<>> THEN ~isPlaying'
          ELSE /\ isPlaying' /\ Len(audioQueue') = Len(audioQueue) - 1
               /\ \E j \in Slots : procs'[j].kind = "queue" /\ procs'[j].pc # "free"
    ]_vars

\* C26: the history window never holds more than three records; ingesting a
\* record into a full window removes exactly the oldest record and appends
\* the new one as the newest, the records kept staying in their order (a
\* window that is not full only has the new record appended).
C26_WindowOfThreeFifo ==
  [][ \A r \in StabilizerResponses :
        Ingest(r) =>
          /\ Len(historyRef) <= 3
          /\ Len(historyRef') <= 3
          /\ historyRef' = (IF Len(historyRef) = 3 THEN Tail(historyRef) ELSE historyRef)
                             \o <<AnalyzeFrame(r)>>
    ]_vars

\* a full window of three different zones, the newest being the record the
\* stable view copies
C26_Witness ==
  /\ Field(historyRef, "depth_zone") = <<"subglottic", "carinal", "glottic">>
  /\ stableRef # <<>>
  /\ stableRef[1].landmarks = historyRef[3].landmarks

\* C27: a flicker of one frame is suppressed.  After two records with
\* depth_zone (or safety_status) A, a record with another value B (or with
\* none) and then a record with A again leave the stabilized value at A at
\* both ingestions: the windows A, A, B and A, B, A give A.
C27_FlickerSuppressed ==
  \A key \in {"depth_zone", "safety_status"} :
    LET values == Field(historyRef, key)
        stable == IF key = "depth_zone" THEN stableRef[1].depth_zone
                  ELSE stableRef[1].safety_status
    IN (/\ Len(values) = 3
        /\ values[1] # Undef
        /\ \/ values[2] = values[1] /\ values[3] # values[1]
           \/ values[3] = values[1] /\ values[2] # values[1]) =>
         stableRef # <<>> /\ stable = values[1]

\* glottic, glottic, then one bronchial frame: the stable zone stays glottic
\* while the newest record says bronchial
C27_Witness ==
  /\ Field(historyRef, "depth_zone") = <<"glottic", "glottic", "bronchial">>
  /\ stableRef # <<>>
  /\ stableRef[1].depth_zone = "glottic"
  /\ historyRef[3].depth_zone = "bronchial"

\* C28: a genuine transition shows within two frames.  Whatever the window
\* held before, when the two newest records both carry the value B for
\* depth_zone (or safety_status), the stabilized value is B.
C28_TransitionWithinTwoFrames ==
  \A key \in {"depth_zone", "safety_status"} :
    LET values == Field(historyRef, key)
        n == Len(values)
        stable == IF key = "depth_zone" THEN stableRef[1].depth_zone
                  ELSE stableRef[1].safety_status
    IN (n >= 2 /\ values[n] # Undef /\ values[n - 1] = values[n]) =>
         stableRef # <<>> /\ stable = values[n]

\* bronchial, then glottic twice: the stable zone has moved to glottic
C28_Witness ==
  /\ Field(historyRef, "depth_zone") = <<"bronchial", "glottic", "glottic">>
  /\ stableRef # <<>>
  /\ stableRef[1].depth_zone = "glottic"

\* C29: for a parsed record with image_quality no_airway_visible whose
\* esophagus is not visible after the confidence gate, the returned record
\* has all six landmarks with visible false, the five landmarks other than
\* the esophagus with confidence 0, the esophagus observation otherwise as
\* received, depth_zone unknown, safety_status safe and estimated_depth_cm 0.
C29_NoAirwayBlanked ==
  (/\ returned # <<>>
   /\ response.ok
   /\ Parsed.kind = "object"
   /\ Parsed.image_quality = "no_airway_visible"
   /\ ~(/\ EsophagusVisible(Parsed)
        /\ ~BelowGate(Parsed.landmarks["esophagus"].confidence))) =>
    LET r == returned[1]
        received == Parsed.hasLandmarks /\ Parsed.landmarks["esophagus"].present
    IN /\ r.success
       /\ r.hasLandmarks
       /\ \A l \in LandmarkIds : r.landmarks[l].present /\ ~r.landmarks[l].visible
       /\ \A l \in LandmarkIds \ {"esophagus"} : r.landmarks[l].confidence = 0
       /\ r.landmarks["esophagus"] =
            (IF received THEN [Parsed.landmarks["esophagus"] EXCEPT !.visible = FALSE]
             ELSE Blank)
       /\ r.depth_zone = "unknown"
       /\ r.safety_status = "safe"
       /\ r.estimated_depth_cm = 0

\* a response that reports the vocal cords, the carinal zone and danger with
\* no airway visible, its esophagus seen with confidence 0.29
C29_Witness ==
  /\ returned # <<>>
  /\ response.ok
  /\ Parsed.kind = "object"
  /\ Parsed.image_quality = "no_airway_visible"
  /\ Parsed.hasLandmarks
  /\ Parsed.landmarks["vocal_cords"] = Obs(TRUE, 92)
  /\ Parsed.landmarks["esophagus"] = Obs(TRUE, 29)
  /\ Parsed.depth_zone = "carinal"
  /\ Parsed.safety_status = "danger"
  /\ returned[1].landmarks["vocal_cords"] = Blank
  /\ returned[1].landmarks["esophagus"] = Obs(FALSE, 29)
  /\ returned[1].depth_zone = "unknown"
  /\ returned[1].safety_status = "safe"
  /\ returned[1].estimated_depth_cm = 0

\* C30 (as claimed): the busy flag covers all scheduler activity.  In every
\* reachable state, if an audio is playing or a synthesis call issued by
\* processQueue or speakUrgent is pending, isPlaying is true; at most one
\* drain iteration or urgent request is between setting and clearing the
\* flag.
C30_BusyFlagCoversActivity ==
  /\ (\E i \in Slots : procs[i].pc = "synth" \/ (procs[i].pc = "play" /\ ~procs[i].superseded))
       => isPlaying
  /\ Cardinality({i \in Slots : procs[i].pc = "synth"
                                  \/ (procs[i].pc = "play" /\ ~procs[i].superseded)}) <= 1

\* C31 (as claimed): once the playback of an ordinary queued item has
\* started, it is cut short only by speakUrgent or stopAllAudio; the start
\* of another queued item's playback never stops it.  A step that ends the
\* playback of a queued item without its audio having settled is a
\* stopAllAudio step, a speakUrgent step or the start of the playback of a
\* speakUrgent request.
C31_QueuedPlaybackOnlyCutByUrgentOrStop ==
  [][ \A i \in Slots :
        (/\ procs[i].kind = "queue"
         /\ procs[i].pc = "play"
         /\ procs'[i].pc # "play"
         /\ ~ \E o \in PlaybackOutcomes : PlaybackSettles(i, o)) =>
          \/ StopAllAudio
          \/ \E k \in SpeakUrgentKeys : SpeakUrgent(k)
          \/ \E j \in Slots : procs[j].kind = "urgent" /\ SynthesisReturns(j, TRUE)
    ]_vars

\* C32 (as claimed): when the raw records change from esophagus not visible
\* to esophagus visible and stay so, determineAlert, fed the consecutive
\* stable views, returns esophageal_warning at some frame of that run,
\* whatever was ingested before the change.  A run of MaxRun frames showing
\* the esophagus, longer than the history window, has had the warning
\* returned at one of its frames.
C32_EsophagusRunWarned ==
  decision.run = MaxRun => decision.warned

C34_BronchialNotLostToCooldown ==
  decision.run = MaxRun => decision.warned

\* C35 (as claimed): failed vision calls do not lower the displayed safety
\* level.  When the stable safety_status is danger and a frame whose vision
\* call failed is ingested (a default record with success false), the
\* stable safety_status is still danger after it.
C35_FailuresKeepDanger ==
  [][ (/\ stableRef # <<>>
       /\ stableRef[1].safety_status = "danger"
       /\ Ingest([ok |-> FALSE, text |-> [form |-> "json", value |-> NullData]])) =>
        stableRef'[1].safety_status = "danger"
    ]_vars

\* C36 (as claimed): in every record analyzeFrame returns,
\* estimated_depth_cm is the table's value for the depth_zone of that same
\* record; a returned record with depth_zone unknown has estimated_depth_cm
\* 0, also when the esophagus escalation set the zone to unknown.
C36_DepthOfReturnedZone ==
  (returned # <<>> /\ returned[1].depth_zone \in DOMAIN ZONE_DEPTH_CM) =>
    returned[1].estimated_depth_cm = ZONE_DEPTH_CM[returned[1].depth_zone]

\* C37: for every response text recovered by the fourth tier (extraction
\* field by field), the returned record has visible false for all six
\* landmarks whatever booleans the text held, each confidence being 0 and
\* the gate applying; such a record is never escalated for the esophagus:
\* its guidance message is the extracted one and its zone the extracted one
\* (unknown when no airway is visible).
C37_FourthTierNothingVisible ==
  LET cleaned == Clean(response.text)
      extracted == Approach4(cleaned)
  IN (/\ returned # <<>>
      /\ response.ok
      /\ Approach1(cleaned).kind = "null"
      /\ Approach2(cleaned).kind = "null"
      /\ Approach3(cleaned).kind = "null") =>
       LET r == returned[1]
       IN /\ r.success
          /\ r.hasLandmarks
          /\ \A l \in LandmarkIds : r.landmarks[l] = Obs(FALSE, 0)
          /\ r.guidance_message = extracted.guidance_message
          /\ r.depth_zone = (IF extracted.image_quality = "no_airway_visible"
                             THEN "unknown" ELSE extracted.depth_zone)
          /\ r.safety_status = (IF extracted.image_quality = "no_airway_visible"
                                THEN "safe" ELSE extracted.safety_status)

\* a truncated text that reported the vocal cords and the esophagus visible
\* with high confidence
C37_Witness ==
  /\ returned # <<>>
  /\ response.ok
  /\ response.text.form = "truncated"
  /\ response.text.value.kind = "object"
  /\ response.text.value.landmarks["esophagus"] = Obs(TRUE, 90)
  /\ response.text.value.landmarks["vocal_cords"] = Obs(TRUE, 92)
  /\ response.text.value.safety_status = "safe"
  /\ returned[1].landmarks["esophagus"] = Obs(FALSE, 0)
  /\ returned[1].landmarks["vocal_cords"] = Obs(FALSE, 0)
  /\ returned[1].safety_status = "safe"

\* C38: between two consecutive startAnalysis calls the driver calls
\* speakUrgent('esophageal_warning') at most once; after the first
\* successful frame showing the esophagus, frames in which it disappears
\* and shows again make no further urgent call.
C38_UrgentOncePerSession ==
  /\ decision.urgents <= 1
  /\ decision.urgents = 1 <=> "esophagus" \in seenLandmarksRef

\* the esophagus was seen, gone and seen again, with one urgent call made
C38_Witness ==
  /\ Len(historyRef) = 3
  /\ EsophagusVisible(historyRef[1])
  /\ ~EsophagusVisible(historyRef[2]) /\ historyRef[2].success
  /\ EsophagusVisible(historyRef[3])
  /\ decision.urgents = 1
  /\ lastRun.step = "returned" /\ ~lastRun.threw

\* C39 (as claimed): while voice is disabled, a runAnalysis tick makes no
\* request to the audio scheduler: neither speakAlert nor speakUrgent is
\* called, whatever the analysis result.
C39_SilentWhenVoiceDisabled ==
  [][ \A i \in 1 .. MaxInflight, r \in DriverResponses, d \in Delays :
        (/\ i <= Len(inflight)
         /\ ~voiceEnabled
         /\ ~inflight[i].voiceEnabled
         /\ AnalysisReturns(i, r, d)) =>
          /\ lastRun'.spoke = <<>>
          /\ audioQueue' = audioQueue /\ procs' = procs /\ isPlaying' = isPlaying
    ]_vars

====
